---- MODULE Spec2Model ----
(***************************************************************************)
(* ProjectRestructurer (clean.py and restructure_project.py): a one-shot   *)
(* script that creates a fixed directory tree, copies named files out of   *)
(* two legacy trees, writes templated configuration and documentation      *)
(* files and, in clean.py, prints "would remove" notices.                  *)
(*                                                                         *)
(* The filesystem is a function from the paths that exist (sequences of    *)
(* path components relative to base_path; <<>> is base_path itself) to     *)
(* nodes.  A node is a directory or a regular file with its bytes, and     *)
(* carries the owner-write permission bit, which shutil.copy2 copies from  *)
(* the source to the destination.  The process is unprivileged: the write  *)
(* bit is enforced.  Symbolic links are not modelled.                      *)
(***************************************************************************)
EXTENDS Integers, Sequences, FiniteSets, TLC

VARIABLES
    script,     \* which of the two scripts runs: "clean" or "restructure"
    run,        \* number of the current invocation of run()
    pc,         \* the method of run() that is executing, "done" or "fault"
    i,          \* index of the next iteration of the loop of that method
    walking,    \* _move_media_files: inside the rglob loop of media root i
    items,      \* _move_media_files: entries rglob has not yielded yet
    fs,         \* the filesystem under (and including) base_path
    start,      \* the filesystem when the current run() was started
    fault,      \* name of the exception that left run(), "" when none
    notices,    \* directories cleanup_old_files printed "Would remove" for
    step        \* number (section 4.1 of the spec) of the last executed step

vars == <<script, run, pc, i, walking, items, fs, start, fault, notices, step>>

----------------------------------------------------------------------------
(* Bounds of the model *)

\* how many names of aframe_components / util_files may be seeded initially
MaxSeedNames == 1
\* deepest nesting of a seeded media file below its media root
MaxDepth == 2
\* number of successive invocations of run()
MaxRuns == 2

----------------------------------------------------------------------------
(* Paths and filesystem nodes *)

base_path == <<>>

Parent(p) == SubSeq(p, 1, Len(p) - 1)

Name(p) == p[Len(p)]

Exists(f, p) == p \in DOMAIN f

IsDir(f, p) == p \in DOMAIN f /\ f[p].kind = "dir"

IsFile(f, p) == p \in DOMAIN f /\ f[p].kind = "file"

Dir(w) == [kind |-> "dir", data |-> <<>>, w |-> w]

File(d, w) == [kind |-> "file", data |-> d, w |-> w]

Put(f, p, n) == [q \in (DOMAIN f) \cup {p} |-> IF q = p THEN n ELSE f[q]]

IsPrefix(p, q) == Len(p) <= Len(q) /\ SubSeq(q, 1, Len(p)) = p

Ok(f) == [err |-> "", fs |-> f]

Err(e, f) == [err |-> e, fs |-> f]

Min(S) == CHOOSE x \in S : \A y \in S : x <= y

\* errno of resolving the directory that is to hold p: the first component
\* that is missing (ENOENT) or is not a directory (ENOTDIR)
LookupParent(f, p) ==
    LET bad == {k \in 0..(Len(p) - 1) : ~IsDir(f, SubSeq(p, 1, k))}
    IN  IF bad = {} THEN ""
        ELSE IF Exists(f, SubSeq(p, 1, Min(bad))) THEN "NotADirectoryError"
        ELSE "FileNotFoundError"

\* os.mkdir(p)
os_mkdir(f, p) ==
    IF Exists(f, p) THEN Err("FileExistsError", f)
    ELSE IF p = base_path THEN Err("FileNotFoundError", f)
    ELSE IF LookupParent(f, p) # "" THEN Err(LookupParent(f, p), f)
    ELSE IF ~f[Parent(p)].w THEN Err("PermissionError", f)
    ELSE Ok(Put(f, p, Dir(TRUE)))

\* pathlib.Path.mkdir(parents=..., exist_ok=...)
RECURSIVE Path_mkdir(_, _, _, _)
Path_mkdir(f, p, parents, exist_ok) ==
    IF os_mkdir(f, p).err = "" THEN os_mkdir(f, p)
    ELSE IF os_mkdir(f, p).err = "FileNotFoundError"
    THEN IF ~parents \/ p = base_path THEN os_mkdir(f, p)
         ELSE IF Path_mkdir(f, Parent(p), TRUE, TRUE).err # ""
              THEN Path_mkdir(f, Parent(p), TRUE, TRUE)
              ELSE Path_mkdir(Path_mkdir(f, Parent(p), TRUE, TRUE).fs, p,
                              FALSE, exist_ok)
    ELSE IF exist_ok /\ IsDir(f, p) THEN Ok(f)
    ELSE os_mkdir(f, p)

\* mkdir without exist_ok: a directory that is already there is an error
mkdir_strict(f, p) == Path_mkdir(f, p, FALSE, FALSE)

\* main_path.mkdir(exist_ok=True)
mkdir_exist_ok(f, p) == Path_mkdir(f, p, FALSE, TRUE)

\* the mkdir of the destination's parent left out
mkdir_parents_skipped(f, p) == Ok(f)

\* dest_file.parent.mkdir(parents=True, exist_ok=True)
mkdir_parents(f, p) == Path_mkdir(f, p, TRUE, TRUE)

\* a file opened in append mode keeps what it held
open_a(f, p, data) ==
    IF IsDir(f, p) THEN Err("IsADirectoryError", f)
    ELSE IF IsFile(f, p)
    THEN IF f[p].w THEN Ok(Put(f, p, File(f[p].data \o data, TRUE)))
         ELSE Err("PermissionError", f)
    ELSE IF LookupParent(f, p) # "" THEN Err(LookupParent(f, p), f)
    ELSE IF ~f[Parent(p)].w THEN Err("PermissionError", f)
    ELSE Ok(Put(f, p, File(data, TRUE)))

\* with open(p, "w") as f: f.write(data)
open_w(f, p, data) ==
    IF IsDir(f, p) THEN Err("IsADirectoryError", f)
    ELSE IF IsFile(f, p)
    THEN IF f[p].w THEN Ok(Put(f, p, File(data, TRUE)))
         ELSE Err("PermissionError", f)
    ELSE IF LookupParent(f, p) # "" THEN Err(LookupParent(f, p), f)
    ELSE IF ~f[Parent(p)].w THEN Err("PermissionError", f)
    ELSE Ok(Put(f, p, File(data, TRUE)))

\* shutil.copy2(src, dst): a dst that is a directory receives the file inside
\* it; the bytes are copied (copyfile), then the mode (copystat)
shutil_copy2(f, src, dst) ==
    LET target == IF IsDir(f, dst) THEN dst \o <<Name(src)>> ELSE dst
    IN  IF IsDir(f, src) THEN Err("IsADirectoryError", f)
        ELSE IF ~IsFile(f, src) THEN Err("FileNotFoundError", f)
        ELSE IF open_w(f, target, f[src].data).err # ""
        THEN open_w(f, target, f[src].data)
        ELSE Ok(Put(f, target, File(f[src].data, f[src].w)))

----------------------------------------------------------------------------
(* JSON documents and json.dump / json.load *)

JStr(s) == [t |-> "str", s |-> s, kids |-> <<>>]

JNum(s) == [t |-> "num", s |-> s, kids |-> <<>>]

JArr(vs) == [t |-> "arr", s |-> "",
             kids |-> [k \in 1..Len(vs) |-> [k |-> "", v |-> vs[k]]]]

\* a dict keeps its keys in insertion order
JObj(kvs) == [t |-> "obj", s |-> "",
              kids |-> [k \in 1..Len(kvs) |-> [k |-> kvs[k][1], v |-> kvs[k][2]]]]

Keys(v) == [k \in 1..Len(v.kids) |-> v.kids[k].k]

\* json.dump(v, f, indent=2) as the sequence of its tokens (the white space
\* that indent=2 puts between tokens carries no information and is left out)
RECURSIVE json_dump(_)
RECURSIVE DumpKids(_, _, _)
DumpKids(t, kids, k) ==
    IF k > Len(kids) THEN <<>>
    ELSE (IF k > 1 THEN <<",">> ELSE <<>>)
         \o (IF t = "obj" THEN <<"\"", kids[k].k, "\"", ":">> ELSE <<>>)
         \o json_dump(kids[k].v)
         \o DumpKids(t, kids, k + 1)

json_dump(v) ==
    IF v.t = "str" THEN <<"\"", v.s, "\"">>
    ELSE IF v.t = "num" THEN <<v.s>>
    ELSE IF v.t = "arr" THEN <<"[">> \o DumpKids("arr", v.kids, 1) \o <<"]">>
    ELSE <<"{">> \o DumpKids("obj", v.kids, 1) \o <<"}">>

\* json.load: a recursive-descent parse of the tokens; ParseValue gives the
\* value that starts at token n and the index of the token after it
RECURSIVE ParseValue(_, _)
RECURSIVE ParseItems(_, _, _, _)
ParseNext(ts, t, acc, key, r) ==
    ParseItems(ts, r.n, t, Append(acc, [k |-> key, v |-> r.v]))

ParseItems(ts, n, t, acc) ==
    IF ts[n] = (IF t = "obj" THEN "}" ELSE "]")
    THEN [v |-> [t |-> t, s |-> "", kids |-> acc], n |-> n + 1]
    ELSE IF ts[n] = "," THEN ParseItems(ts, n + 1, t, acc)
    ELSE IF t = "obj" THEN ParseNext(ts, t, acc, ts[n + 1], ParseValue(ts, n + 4))
    ELSE ParseNext(ts, t, acc, "", ParseValue(ts, n))

ParseValue(ts, n) ==
    IF ts[n] = "\"" THEN [v |-> JStr(ts[n + 1]), n |-> n + 3]
    ELSE IF ts[n] = "[" THEN ParseItems(ts, n + 1, "arr", <<>>)
    ELSE IF ts[n] = "{" THEN ParseItems(ts, n + 1, "obj", <<>>)
    ELSE [v |-> JNum(ts[n]), n |-> n + 1]

json_load(ts) == ParseValue(ts, 1).v

----------------------------------------------------------------------------
(* The fixed tables of the scripts *)

Scripts == {"clean", "restructure"}

\* a plan that lacks src/styles
new_structure_without_styles ==
    << <<"public", <<"assets", "models", "textures", "audio">> >>,
       <<"src", <<"components", "utils">> >>,
       <<"docs", <<>> >> >>

\* self.new_structure, in the order the dict is iterated
new_structure ==
    << <<"public", <<"assets", "models", "textures", "audio">> >>,
       <<"src", <<"components", "utils", "styles">> >>,
       <<"docs", <<>> >> >>

\* the paths create_directory_structure passes to mkdir, in order
RECURSIVE PlanFrom(_)
PlanFrom(k) ==
    IF k > Len(new_structure) THEN <<>>
    ELSE << <<new_structure[k][1]>> >>
         \o [j \in 1..Len(new_structure[k][2]) |->
                <<new_structure[k][1], new_structure[k][2][j]>>]
         \o PlanFrom(k + 1)

PlanDirs == PlanFrom(1)

aframe_components ==
    <<"pinchable.js", "color-change.js", "slider.js", "size-change.js",
      "button.js", "menu.js", "pressable.js", "event-manager.js",
      "info-message.js">>

campus_tour == <<"Campus-Tour-NYUAD-main">>

src_components == <<"src", "components">>

webxr_utils == <<"webxr-samples-main", "js">>

utils_dest == <<"src", "utils">>

util_files == <<"hit-test.js", "stereo-util.js">>

\* texture_sources: (src, dest) pairs of _move_media_files
texture_sources ==
    << [src |-> <<"webxr-samples-main", "media", "textures">>,
        dest |-> <<"public", "textures">>],
       [src |-> <<"webxr-samples-main", "media", "gltf">>,
        dest |-> <<"public", "models">>] >>

\* a descriptor that lacks the license key
package_json_without_license ==
    JObj(<< <<"name", JStr("aimlab-xr-wireless")>>,
            <<"version", JStr("1.0.0")>>,
            <<"description",
              JStr("AIMLAB Wireless XR - Interactive AR Experience with Hand Tracking")>>,
            <<"author", JStr("Pi Ko <pi.ko@nyu.edu>")>>,
            <<"scripts", JObj(<< <<"dev", JStr("npx serve .")>>,
                                 <<"build", JStr("echo 'No build step required'")>>,
                                 <<"preview", JStr("npx serve .")>> >>)>>,
            <<"keywords", JArr(<<JStr("webxr"), JStr("ar"), JStr("vr"),
                                 JStr("hand-tracking"), JStr("aframe")>>)>>,
            <<"repository",
              JObj(<< <<"type", JStr("git")>>,
                      <<"url", JStr("https://github.com/yourusername/aimlab-xr-wireless")>> >>)>> >>)

package_json ==
    JObj(<< <<"name", JStr("aimlab-xr-wireless")>>,
            <<"version", JStr("1.0.0")>>,
            <<"description",
              JStr("AIMLAB Wireless XR - Interactive AR Experience with Hand Tracking")>>,
            <<"author", JStr("Pi Ko <pi.ko@nyu.edu>")>>,
            <<"license", JStr("MIT")>>,
            <<"scripts", JObj(<< <<"dev", JStr("npx serve .")>>,
                                 <<"build", JStr("echo 'No build step required'")>>,
                                 <<"preview", JStr("npx serve .")>> >>)>>,
            <<"keywords", JArr(<<JStr("webxr"), JStr("ar"), JStr("vr"),
                                 JStr("hand-tracking"), JStr("aframe")>>)>>,
            <<"repository",
              JObj(<< <<"type", JStr("git")>>,
                      <<"url", JStr("https://github.com/yourusername/aimlab-xr-wireless")>> >>)>> >>)

Header(k, v) == JObj(<< <<"key", JStr(k)>>, <<"value", JStr(v)>> >>)

\* the "headers" list of vercel_config: restructure_project.py has one more
vercel_headers(s) ==
    << Header("Cross-Origin-Embedder-Policy", "require-corp"),
       Header("Cross-Origin-Opener-Policy", "same-origin") >>
    \o (IF s = "restructure"
        THEN << Header("Permissions-Policy", "xr-spatial-tracking=(self)") >>
        ELSE <<>>)

vercel_config(s) ==
    JObj(<< <<"version", JNum("2")>>,
            <<"builds", JArr(<< JObj(<< <<"src", JStr("index.html")>>,
                                        <<"use", JStr("@vercel/static")>> >>) >>)>>,
            <<"routes", JArr(<< JObj(<< <<"src", JStr("/(.*)")>>,
                                        <<"dest", JStr("/$1")>> >>) >>)>>,
            <<"headers",
              JArr(<< JObj(<< <<"source", JStr("/(.*)")>>,
                              <<"headers", JArr(vercel_headers(s))>> >>) >>)>> >>)

gitignore_content == <<"# Dependencies ... *.temp">>

readme_content(s) ==
    IF s = "clean" THEN <<"# AIMLAB Wireless XR ... (with Project Structure)">>
    ELSE <<"# AIMLAB Wireless XR ... (short)">>

tech_doc == <<"# Technical Documentation ...">>

docs_path == <<"docs">>

old_dirs == <<"Campus-Tour-NYUAD-main", "webxr-samples-main", ".git">>

\* a write of create_config_files / create_documentation, or the mkdir of
\* docs_path
Write(p, d) == [op |-> "write", path |-> p, data |-> d]

MkdirOp(p) == [op |-> "mkdir", path |-> p, data |-> <<>>]

\* a script that leaves the .gitignore out
config_files_no_gitignore(s) ==
    << Write(<<"package.json">>, json_dump(package_json)),
       Write(<<"vercel.json">>, json_dump(vercel_config(s))) >>

\* the writes of create_config_files, in order
config_files(s) ==
    << Write(<<"package.json">>, json_dump(package_json)),
       Write(<<"vercel.json">>, json_dump(vercel_config(s))) >>
    \o (IF s = "clean" THEN << Write(<<".gitignore">>, gitignore_content) >>
        ELSE <<>>)

\* the operations of create_documentation, in order
documentation(s) ==
    << Write(<<"README.md">>, readme_content(s)) >>
    \o (IF s = "clean"
        THEN << MkdirOp(docs_path),
                Write(docs_path \o <<"TECHNICAL.md">>, tech_doc) >>
        ELSE <<>>)

\* run() with create_config_files called before move_assets
PhasesSwapped(s) ==
    <<"create_directory_structure", "create_config_files", "move_components",
      "move_utilities", "move_media_files", "create_documentation">>
    \o (IF s = "clean" THEN <<"create_index_html", "cleanup_old_files">>
        ELSE <<>>)
    \o <<"done">>

\* run(): the methods in the order they are called (move_assets is its three
\* loops, the last one being _move_media_files)
Phases(s) ==
    <<"create_directory_structure", "move_components", "move_utilities",
      "move_media_files", "create_config_files", "create_documentation">>
    \o (IF s = "clean" THEN <<"create_index_html", "cleanup_old_files">>
        ELSE <<>>)
    \o <<"done">>

NextPhase(s, ph) ==
    Phases(s)[(CHOOSE k \in 1..Len(Phases(s)) : Phases(s)[k] = ph) + 1]

\* the step of section 4.1 of the spec that a method carries out
\* (create_index_html only prints: it belongs to no step and leaves the
\* number unchanged)
StepOf(ph, cur) ==
    CASE ph = "create_directory_structure" -> 1
      [] ph = "move_components" -> 2
      [] ph = "move_utilities" -> 3
      [] ph = "move_media_files" -> 4
      [] ph = "create_config_files" -> 5
      [] ph = "create_documentation" -> 6
      [] ph = "cleanup_old_files" -> 7
      [] OTHER -> cur
----------------------------------------------------------------------------
(* Initial filesystems: base_path missing, or up to two seeded entries,    *)
(* each put at one of the paths the scripts look at, with every ancestor   *)
(* of a seeded entry present as a writable directory                       *)

SeedNames(list) ==
    {list[k] : k \in 1..(IF MaxSeedNames < Len(list) THEN MaxSeedNames ELSE Len(list))}

media_dirs == <<"sub", "dir", "deep", "deeper", "deepest">>

\* the relative path of the seeded media file nested k directories deep
MediaRel(k) == SubSeq(media_dirs, 1, k) \o <<"file.bin">>

OutputFiles ==
    { <<"package.json">>, <<"vercel.json">>, <<".gitignore">>, <<"README.md">>,
      docs_path \o <<"TECHNICAL.md">> }

DirW == [kind |-> "dir", w |-> TRUE]

DirRO == [kind |-> "dir", w |-> FALSE]

FileW == [kind |-> "file", w |-> TRUE]

FileRO == [kind |-> "file", w |-> FALSE]

\* the seeded media files lie directly in the media root or MaxDepth
\* directories below it
SeedDepths == {0, MaxDepth}

\* paths the scripts expect to be directories
SeedDirPaths ==
    {PlanDirs[k] : k \in 1..Len(PlanDirs)}
    \cup {texture_sources[k].dest \o SubSeq(media_dirs, 1, d) :
            k \in 1..Len(texture_sources), d \in SeedDepths \ {0}}

\* legacy directories the scripts only read
SeedLegacyPaths ==
    {<<old_dirs[k]>> : k \in 1..Len(old_dirs)}
    \cup {webxr_utils}
    \cup {texture_sources[k].src : k \in 1..Len(texture_sources)}

\* paths the scripts expect to be regular files: sources, destinations, outputs
SeedFilePaths ==
    {campus_tour \o <<n>> : n \in SeedNames(aframe_components)}
    \cup {src_components \o <<n>> : n \in SeedNames(aframe_components)}
    \cup {webxr_utils \o <<n>> : n \in SeedNames(util_files)}
    \cup {utils_dest \o <<n>> : n \in SeedNames(util_files)}
    \cup {texture_sources[k].src \o MediaRel(d) :
            k \in 1..Len(texture_sources), d \in SeedDepths}
    \cup {texture_sources[k].dest \o MediaRel(d) :
            k \in 1..Len(texture_sources), d \in SeedDepths}
    \cup OutputFiles

\* a seed: a path and the node found there.  A directory is seeded writable
\* or not, or occupied by a regular file; a file is seeded writable or not, or
\* occupied by a directory; base_path is a writable directory unless seeded
SeedUniverse ==
    [path : {base_path}, node : {DirRO, FileW}]
    \cup [path : SeedDirPaths, node : {DirW, DirRO, FileW}]
    \cup [path : SeedLegacyPaths, node : {DirW, FileW}]
    \cup [path : SeedFilePaths, node : {FileW, FileRO, DirW}]

\* a stale descriptor, with a key the templates do not have
stale_json ==
    JObj(<< <<"name", JStr("old-project")>>, <<"private", JStr("true")>> >>)

\* what a seeded file holds: bytes that no other file holds
Content0(p) ==
    IF p \in {<<"package.json">>, <<"vercel.json">>} THEN json_dump(stale_json)
    ELSE <<"bytes of">> \o p

\* no path seeded twice, nothing seeded below a regular file
Consistent(S) ==
    \A a, b \in S :
        a # b => /\ a.path # b.path
                 /\ ~(IsPrefix(a.path, b.path) /\ a.node.kind = "file")

\* p and the directories above it
Ancestors(p) == {SubSeq(p, 1, k) : k \in 0..Len(p)}

SeedAt(S, p) == CHOOSE a \in S : a.path = p

Build(S) ==
    [p \in {base_path} \cup UNION {Ancestors(a.path) : a \in S} |->
        IF \E a \in S : a.path = p
        THEN IF SeedAt(S, p).node.kind = "dir" THEN Dir(SeedAt(S, p).node.w)
             ELSE File(Content0(p), SeedAt(S, p).node.w)
        ELSE Dir(TRUE)]

None == [path |-> <<"-">>, node |-> [kind |-> "none", w |-> TRUE]]

Init ==
    /\ script \in Scripts
    /\ \/ fs = << >>                      \* base_path does not exist
       \/ \E a, b \in SeedUniverse \cup {None} :
            Consistent({a, b} \ {None}) /\ fs = Build({a, b} \ {None})
    /\ start = fs
    /\ run = 1
    /\ pc = "create_directory_structure"
    /\ i = 1
    /\ walking = FALSE
    /\ items = {}
    /\ fault = ""
    /\ notices = <<>>
    /\ step = 0

----------------------------------------------------------------------------
(* The methods of ProjectRestructurer *)

\* an exception that is swallowed: run() goes on with the next method
Swallow(s, ph) == NextPhase(s, ph)

\* an exception that nothing catches leaves run() and ends the process
Propagate(s, ph) == "fault"

\* the end of an iteration that ran the operation with result r; last: the
\* loop of the method is over
Proceed(r, last) ==
    /\ fs' = r.fs
    /\ fault' = (IF r.err # "" THEN r.err ELSE fault)
    /\ step' = StepOf(pc, step)
    /\ IF r.err # "" THEN pc' = Propagate(script, pc) /\ i' = 1
       ELSE IF last THEN pc' = NextPhase(script, pc) /\ i' = 1
       ELSE pc' = pc /\ i' = i + 1

create_directory_structure ==
    /\ pc = "create_directory_structure"
    /\ Proceed(mkdir_exist_ok(fs, PlanDirs[i]), i = Len(PlanDirs))
    /\ UNCHANGED <<script, run, walking, items, start, notices>>

\* if src_file.exists(): shutil.copy2(src_file, dest_file)
copy_if_exists(f, src, dst) ==
    IF Exists(f, src) THEN shutil_copy2(f, src, dst) ELSE Ok(f)

\* move_assets: the loop over aframe_components
move_components ==
    /\ pc = "move_components"
    /\ Proceed(copy_if_exists(fs, campus_tour \o <<aframe_components[i]>>,
                              src_components \o <<aframe_components[i]>>),
               i = Len(aframe_components))
    /\ UNCHANGED <<script, run, walking, items, start, notices>>

\* move_assets: the loop over util_files, inside "if webxr_utils.exists()"
move_utilities ==
    /\ pc = "move_utilities"
    /\ Proceed(IF Exists(fs, webxr_utils)
               THEN copy_if_exists(fs, webxr_utils \o <<util_files[i]>>,
                                   utils_dest \o <<util_files[i]>>)
               ELSE Ok(fs),
               i = Len(util_files))
    /\ UNCHANGED <<script, run, walking, items, start, notices>>

\* the regular files src.rglob("*") yields (the "if item.is_file()" of the
\* loop is part of the enumeration)
rglob_files(f, src) ==
    {p \in DOMAIN f : IsPrefix(src, p) /\ p # src /\ IsFile(f, p)}

\* one iteration of the rglob loop: dest_file.parent.mkdir, then copy2
move_media_item(f, src, dest, item) ==
    LET dest_file == dest \o SubSeq(item, Len(src) + 1, Len(item))
    IN  IF mkdir_parents(f, Parent(dest_file)).err # ""
        THEN mkdir_parents(f, Parent(dest_file))
        ELSE shutil_copy2(mkdir_parents(f, Parent(dest_file)).fs, item, dest_file)

_move_media_files ==
    /\ pc = "move_media_files"
    /\ \/ \* for src, dest in texture_sources: if src.exists()
          /\ ~walking
          /\ IF Exists(fs, texture_sources[i].src)
             THEN /\ walking' = TRUE
                  /\ items' = rglob_files(fs, texture_sources[i].src)
                  /\ UNCHANGED <<pc, i, fs, fault>>
                  /\ step' = StepOf(pc, step)
             ELSE /\ Proceed(Ok(fs), i = Len(texture_sources))
                  /\ UNCHANGED <<walking, items>>
       \/ \* for item in src.rglob("*"), in whatever order the walk yields
          /\ walking
          /\ \E item \in items :
                /\ items' = items \ {item}
                /\ fs' = move_media_item(fs, texture_sources[i].src,
                                         texture_sources[i].dest, item).fs
                /\ LET e == move_media_item(fs, texture_sources[i].src,
                                            texture_sources[i].dest, item).err
                   IN  /\ fault' = (IF e # "" THEN e ELSE fault)
                       /\ pc' = (IF e # "" THEN Propagate(script, pc) ELSE pc)
          /\ UNCHANGED <<i, walking>>
          /\ step' = StepOf(pc, step)
       \/ \* the loop over the items is over: print, next pair
          /\ walking
          /\ items = {}
          /\ walking' = FALSE
          /\ Proceed(Ok(fs), i = Len(texture_sources))
          /\ UNCHANGED items
    /\ UNCHANGED <<script, run, start, notices>>

\* the files opened with mode "a" instead of "w"
PerformAppend(f, o) ==
    IF o.op = "mkdir" THEN mkdir_exist_ok(f, o.path)
    ELSE open_a(f, o.path, o.data)

\* one operation of create_config_files or create_documentation
Perform(f, o) ==
    IF o.op = "mkdir" THEN mkdir_exist_ok(f, o.path)
    ELSE open_w(f, o.path, o.data)

create_config_files ==
    /\ pc = "create_config_files"
    /\ Proceed(Perform(fs, config_files(script)[i]), i = Len(config_files(script)))
    /\ UNCHANGED <<script, run, walking, items, start, notices>>

create_documentation ==
    /\ pc = "create_documentation"
    /\ Proceed(Perform(fs, documentation(script)[i]), i = Len(documentation(script)))
    /\ UNCHANGED <<script, run, walking, items, start, notices>>

\* only prints
create_index_html ==
    /\ pc = "create_index_html"
    /\ Proceed(Ok(fs), TRUE)
    /\ UNCHANGED <<script, run, walking, items, start, notices>>

\* shutil.rmtree(dir_path)
rmtree(f, p) == [q \in {x \in DOMAIN f : ~IsPrefix(p, x)} |-> f[q]]

\* what cleanup_old_files does to a listed directory that exists: the
\* rmtree call is commented out
cleanup_effect(f, p) == f

cleanup_old_files ==
    /\ pc = "cleanup_old_files"
    /\ IF IsDir(fs, <<old_dirs[i]>>)
       THEN /\ notices' = Append(notices, old_dirs[i])
            /\ Proceed(Ok(cleanup_effect(fs, <<old_dirs[i]>>)), i = Len(old_dirs))
       ELSE /\ notices' = notices
            /\ Proceed(Ok(fs), i = Len(old_dirs))
    /\ UNCHANGED <<script, run, walking, items, start>>

\* the script is started again after a run that completed
StartRun ==
    /\ pc = "done"
    /\ run < MaxRuns
    /\ run' = run + 1
    /\ start' = fs
    /\ pc' = Phases(script)[1]
    /\ i' = 1
    /\ walking' = FALSE
    /\ items' = {}
    /\ notices' = <<>>
    /\ step' = 0
    /\ UNCHANGED <<script, fs, fault>>

Next ==
    \/ create_directory_structure
    \/ move_components
    \/ move_utilities
    \/ _move_media_files
    \/ create_config_files
    \/ create_documentation
    \/ create_index_html
    \/ cleanup_old_files
    \/ StartRun

Spec == Init /\ [][Next]_vars
----------------------------------------------------------------------------
(* Properties *)

Done == pc = "done"

Components == {aframe_components[k] : k \in 1..Len(aframe_components)}

Utilities == {util_files[k] : k \in 1..Len(util_files)}

\* C1: once run() has completed, every directory of the fixed plan (public,
\* public/assets, public/models, public/textures, public/audio, src,
\* src/components, src/utils, src/styles, docs) exists as a directory,
\* whatever the filesystem held before.
C1_PlanDirsExist ==
    Done =>
        \A p \in { <<"public">>, <<"public", "assets">>, <<"public", "models">>,
                   <<"public", "textures">>, <<"public", "audio">>, <<"src">>,
                   <<"src", "components">>, <<"src", "utils">>,
                   <<"src", "styles">>, <<"docs">> } : IsDir(fs, p)

\* a first run completed from a filesystem in which one plan directory was
\* already there and another was missing
C1_Witness ==
    /\ Done
    /\ run = 1
    /\ IsDir(start, <<"src">>)
    /\ ~Exists(start, <<"src", "styles">>)
    /\ ~Exists(start, <<"public">>)

\* the claim about one copied name: source present => destination holds its
\* bytes; source absent => no file is created at the destination
CopiedAsClaimed(src, dst) ==
    /\ IsFile(start, src) => IsFile(fs, dst) /\ fs[dst].data = start[src].data
    /\ (~Exists(start, src) /\ ~Exists(start, dst)) => ~Exists(fs, dst)

\* C2: for every component name (Campus-Tour-NYUAD-main/<name> to
\* src/components/<name>) and utility name (webxr-samples-main/js/<name> to
\* src/utils/<name>): if the source file was present before run(), the
\* destination holds exactly its bytes after run(); if it was absent, no file
\* was created at the destination.
C2_AssetsCopied ==
    Done =>
        /\ \A n \in Components :
              CopiedAsClaimed(campus_tour \o <<n>>, src_components \o <<n>>)
        /\ \A n \in Utilities :
              CopiedAsClaimed(webxr_utils \o <<n>>, utils_dest \o <<n>>)

\* the same paths exist, with the same kinds and the same file contents
SameTree(f, g) ==
    /\ DOMAIN f = DOMAIN g
    /\ \A p \in DOMAIN f : f[p].kind = g[p].kind /\ f[p].data = g[p].data

\* C3: run() is idempotent on the filesystem: a run() started right after a
\* run() that completed leaves the set of paths, their kinds and the file
\* contents exactly as the first run left them (also when it ends in a fault).
C3_Idempotent ==
    (run >= 2 /\ (Done \/ fault # "")) => SameTree(fs, start)

\* a second run completed after a first run that had copied a component, a
\* media file and overwritten a stale package.json
C3_Witness ==
    /\ Done
    /\ run = 2
    /\ \E n \in Components : IsFile(fs, src_components \o <<n>>)
    /\ IsFile(fs, <<"package.json">>)
    /\ \E p \in DOMAIN fs : IsPrefix(<<"public", "textures">>, p) /\ IsFile(fs, p)

\* C4: no run deletes a legacy directory: each of Campus-Tour-NYUAD-main,
\* webxr-samples-main and .git that exists keeps existing, with its kind, over
\* every step; a step of cleanup_old_files changes nothing in the filesystem
\* and prints its notice exactly for a listed directory that exists.
C4_NeverDeletes ==
    [][ /\ \A k \in 1..Len(old_dirs) :
              Exists(fs, <<old_dirs[k]>>) =>
                  /\ Exists(fs', <<old_dirs[k]>>)
                  /\ fs'[<<old_dirs[k]>>].kind = fs[<<old_dirs[k]>>].kind
        /\ pc = "cleanup_old_files" =>
              /\ fs' = fs
              /\ notices' = (IF IsDir(fs, <<old_dirs[i]>>)
                             THEN Append(notices, old_dirs[i]) ELSE notices) ]_vars

\* cleanup_old_files has printed a notice for a legacy directory, which is
\* still there when run() is over
C4_Witness ==
    /\ Done
    /\ Len(notices) > 0
    /\ IsDir(fs, <<notices[1]>>)
    /\ \E p \in DOMAIN fs : IsPrefix(<<notices[1]>>, p) /\ IsFile(fs, p)

\* C5: for each media root that exists (webxr-samples-main/media/textures to
\* public/textures, webxr-samples-main/media/gltf to public/models) and every
\* regular file at <root>/<rel>, at any depth, a file with identical content
\* exists at <destination>/<rel> after run(), below directories.
C5_MediaCopied ==
    Done =>
        \A k \in 1..Len(texture_sources) :
            \A item \in rglob_files(start, texture_sources[k].src) :
                LET dest_file == texture_sources[k].dest
                                 \o SubSeq(item, Len(texture_sources[k].src) + 1, Len(item))
                IN  /\ IsFile(fs, dest_file)
                    /\ fs[dest_file].data = start[item].data
                    /\ \A d \in Ancestors(Parent(dest_file)) : IsDir(fs, d)

\* no step of run() has raised an error
NoFault == fault = ""

\* C6 (as claimed): no error is raised anywhere in run(): there is no
\* reachable state in which a step of run() has faulted.
C6_NeverFaults == NoFault

\* the filesystems run() accepts: base_path is a directory, every directory
\* is writable, no path that has to be a directory is occupied by a regular
\* file, every present source is a regular file, and every copy destination
\* and output file is absent or a writable regular file
Benign(f) ==
    /\ IsDir(f, base_path)
    /\ \A p \in DOMAIN f : f[p].kind = "dir" => f[p].w
    /\ \A k \in 1..Len(PlanDirs) : Exists(f, PlanDirs[k]) => IsDir(f, PlanDirs[k])
    /\ \A n \in Components :
          /\ Exists(f, campus_tour \o <<n>>) => IsFile(f, campus_tour \o <<n>>)
          /\ Exists(f, src_components \o <<n>>) =>
                IsFile(f, src_components \o <<n>>) /\ f[src_components \o <<n>>].w
    /\ \A n \in Utilities :
          /\ Exists(f, webxr_utils \o <<n>>) => IsFile(f, webxr_utils \o <<n>>)
          /\ Exists(f, utils_dest \o <<n>>) =>
                IsFile(f, utils_dest \o <<n>>) /\ f[utils_dest \o <<n>>].w
    /\ \A k \in 1..Len(texture_sources) :
          \A item \in rglob_files(f, texture_sources[k].src) :
              LET dest_file == texture_sources[k].dest
                               \o SubSeq(item, Len(texture_sources[k].src) + 1, Len(item))
              IN  /\ Exists(f, dest_file) => IsFile(f, dest_file) /\ f[dest_file].w
                  /\ \A d \in Ancestors(Parent(dest_file)) : Exists(f, d) => IsDir(f, d)
    /\ \A p \in OutputFiles : Exists(f, p) => IsFile(f, p) /\ f[p].w

\* C6 (amended): a run() started on a filesystem that satisfies Benign raises
\* no error: missing sources are skipped and directories that are already
\* there are accepted.
C6_NoFaultWhenBenign == Benign(start) => NoFault

\* a first run completed without a fault although a component source was
\* missing, another was present and src/components was already there
C6_Witness ==
    /\ Done
    /\ run = 1
    /\ Benign(start)
    /\ \E n \in Components : IsFile(start, campus_tour \o <<n>>)
    /\ \E n \in Components : ~Exists(start, campus_tour \o <<n>>)
    /\ IsDir(start, <<"src", "components">>)

\* the step in which run() may create or write path p
StepOfPath(p) ==
    IF p \in {PlanDirs[k] : k \in 1..Len(PlanDirs)} THEN {1}
    ELSE IF IsPrefix(src_components, p) THEN {2}
    ELSE IF IsPrefix(utils_dest, p) THEN {3}
    ELSE IF \E k \in 1..Len(texture_sources) : IsPrefix(texture_sources[k].dest, p)
    THEN {4}
    ELSE IF p \in {<<"package.json">>, <<"vercel.json">>, <<".gitignore">>} THEN {5}
    ELSE IF p \in {<<"README.md">>, docs_path \o <<"TECHNICAL.md">>} THEN {6}
    ELSE {}

Changed(f, g) == {p \in DOMAIN g : p \notin DOMAIN f \/ f[p] # g[p]}

\* C7: within one run() the steps happen in the fixed order and never
\* interleave: the number of the executing step (1 directories, 2 components,
\* 3 utilities, 4 media, 5 descriptors, 6 documentation, 7 notices) never
\* decreases and never skips a step, and whatever a step creates or writes
\* belongs to that step.
C7_StepsInOrder ==
    [][ run' = run =>
          /\ step' \in {step, step + 1}
          /\ \A p \in Changed(fs, fs') : step' \in StepOfPath(p)
          /\ notices' # notices => step' = 7 ]_vars

\* clean.py went through all seven steps, having copied a component and a
\* media file on the way
C7_Witness ==
    /\ Done
    /\ run = 1
    /\ step = 7
    /\ \E n \in Components :
          IsFile(fs, src_components \o <<n>>) /\ ~Exists(start, src_components \o <<n>>)
    /\ \E p \in DOMAIN fs : IsPrefix(<<"public", "models">>, p) /\ IsFile(fs, p)

\* C8 (as claimed): after run() has completed, package.json, vercel.json,
\* .gitignore, README.md and docs/TECHNICAL.md all exist.
C8_AllOutputsExist ==
    Done => \A p \in OutputFiles : IsFile(fs, p)

\* C8 (amended): after run() has completed, package.json, vercel.json and
\* README.md exist; after clean.py's run() so do .gitignore and
\* docs/TECHNICAL.md, below the directory docs; restructure_project.py writes
\* neither of the two, which are as they were before the run.
C8_OutputsExist ==
    Done =>
        /\ \A p \in { <<"package.json">>, <<"vercel.json">>, <<"README.md">> } :
              IsFile(fs, p)
        /\ script = "clean" =>
              /\ IsFile(fs, <<".gitignore">>)
              /\ fs[<<".gitignore">>].data = gitignore_content
              /\ IsDir(fs, <<"docs">>)
              /\ IsFile(fs, <<"docs", "TECHNICAL.md">>)
              /\ fs[<<"docs", "TECHNICAL.md">>].data = tech_doc
        /\ script = "restructure" =>
              \A p \in { <<".gitignore">>, <<"docs", "TECHNICAL.md">> } :
                  /\ Exists(fs, p) <=> Exists(start, p)
                  /\ Exists(fs, p) => fs[p] = start[p]

\* clean.py completed a first run and created all five output files
C8_Witness ==
    /\ Done
    /\ run = 1
    /\ script = "clean"
    /\ \A p \in OutputFiles : ~Exists(start, p) \/ start[p].data # fs[p].data
    /\ \E p \in OutputFiles : Exists(start, p)

\* C9: whatever package.json and vercel.json held before, after run() the
\* package descriptor is exactly the serialization of the template and parses
\* back to exactly the keys name, version, description, author, license,
\* scripts, keywords, repository with the template's values, and the
\* deployment descriptor to exactly version, builds, routes, headers with the
\* template's values.
C9_DescriptorsExact ==
    Done =>
        /\ IsFile(fs, <<"package.json">>)
        /\ fs[<<"package.json">>].data = json_dump(package_json)
        /\ Keys(json_load(fs[<<"package.json">>].data))
              = <<"name", "version", "description", "author", "license",
                  "scripts", "keywords", "repository">>
        /\ json_load(fs[<<"package.json">>].data) = package_json
        /\ IsFile(fs, <<"vercel.json">>)
        /\ fs[<<"vercel.json">>].data = json_dump(vercel_config(script))
        /\ Keys(json_load(fs[<<"vercel.json">>].data))
              = <<"version", "builds", "routes", "headers">>
        /\ json_load(fs[<<"vercel.json">>].data) = vercel_config(script)

\* a first run completed over a stale package.json that had another key
C9_Witness ==
    /\ Done
    /\ run = 1
    /\ IsFile(start, <<"package.json">>)
    /\ "private" \in {Keys(json_load(start[<<"package.json">>].data))[k] :
                        k \in 1..Len(Keys(json_load(start[<<"package.json">>].data)))}

\* C10: a fault aborts the run at the faulting operation: once an error has
\* been raised no further step is taken (nothing of that step or a later one
\* runs, nothing is retried), and the step that raises it leaves everything
\* that was on disk as it was (no rollback).
C10_FaultAborts ==
    [][ /\ fault # "" => UNCHANGED vars
        /\ (fault = "" /\ fault' # "") =>
              /\ pc' = "fault"
              /\ \A p \in DOMAIN fs : p \in DOMAIN fs' /\ fs'[p] = fs[p] ]_vars

\* a run was aborted by a plan path occupied by a regular file or by an
\* unwritable destination, after it had changed the filesystem
C10_Witness ==
    /\ fault \in {"FileExistsError", "PermissionError"}
    /\ pc = "fault"
    /\ Changed(start, fs) # {}
\* the destination of media file item of the k-th pair of texture_sources
MediaDest(k, item) ==
    texture_sources[k].dest
    \o SubSeq(item, Len(texture_sources[k].src) + 1, Len(item))

\* C11: at the moment of every file copy or file write of run() the parent
\* directory of the destination is a directory: src/components and src/utils
\* when a component or utility is about to be copied, the parent of a media
\* destination once its mkdir has returned and copy2 is called, base_path
\* when a descriptor or the README is written, and docs when the technical
\* documentation is written.
C11_ParentExists ==
    /\ (pc = "move_components" /\ Exists(fs, campus_tour \o <<aframe_components[i]>>))
          => IsDir(fs, Parent(src_components \o <<aframe_components[i]>>))
    /\ (pc = "move_utilities" /\ Exists(fs, webxr_utils)
          /\ Exists(fs, webxr_utils \o <<util_files[i]>>))
          => IsDir(fs, Parent(utils_dest \o <<util_files[i]>>))
    /\ (pc = "move_media_files" /\ walking) =>
          \A item \in items :
              mkdir_parents(fs, Parent(MediaDest(i, item))).err = "" =>
                  IsDir(mkdir_parents(fs, Parent(MediaDest(i, item))).fs,
                        Parent(MediaDest(i, item)))
    /\ pc = "create_config_files" =>
          IsDir(fs, Parent(config_files(script)[i].path))
    /\ (pc = "create_documentation" /\ documentation(script)[i].op = "write") =>
          IsDir(fs, Parent(documentation(script)[i].path))

\* clean.py completed a first run in which a nested media file was copied
\* below directories that the run had to create, and wrote the technical
\* documentation
C11_Witness ==
    /\ Done
    /\ run = 1
    /\ \E k \in 1..Len(texture_sources) :
          /\ IsFile(fs, texture_sources[k].dest \o MediaRel(MaxDepth))
          /\ ~Exists(start, Parent(texture_sources[k].dest \o MediaRel(MaxDepth)))
    /\ IsFile(fs, <<"docs", "TECHNICAL.md">>)
    /\ ~Exists(start, <<"docs">>)
\* the paths a run() started on filesystem f may create or overwrite, as
\* claimed: the plan directories, the destination of every component, utility
\* and media file whose source exists (with the directories between a media
\* destination and its root), and the fixed descriptor and documentation files
AllowedPaths(f) ==
    {PlanDirs[k] : k \in 1..Len(PlanDirs)}
    \cup {src_components \o <<n>> : n \in {c \in Components : Exists(f, campus_tour \o <<c>>)}}
    \cup {utils_dest \o <<n>> : n \in {u \in Utilities : Exists(f, webxr_utils \o <<u>>)}}
    \cup UNION { UNION { Ancestors(MediaDest(k, item)) :
                           item \in rglob_files(f, texture_sources[k].src) } :
                 k \in 1..Len(texture_sources) }
    \cup OutputFiles

LegacyTrees == { <<"Campus-Tour-NYUAD-main">>, <<"webxr-samples-main">> }

\* C12: run() is purely additive and confined to its fixed output set: in
\* every reachable state no path that existed before the run has been removed
\* or has changed its kind, every file below Campus-Tour-NYUAD-main and
\* webxr-samples-main is unchanged, and the only paths created or overwritten
\* are the plan directories, the destinations whose source exists and the
\* fixed descriptor and documentation files (so a destination file whose
\* source is absent is kept as it was).
C12_AdditiveAndConfined ==
    /\ \A p \in DOMAIN start : Exists(fs, p) /\ fs[p].kind = start[p].kind
    /\ \A p \in DOMAIN start :
          (\E t \in LegacyTrees : IsPrefix(t, p)) => fs[p] = start[p]
    /\ Changed(start, fs) \subseteq AllowedPaths(start)

====
